---- MODULE Spec2Model ----
(***************************************************************************)
(* Model of ngraph::runtime::reference::gather_nd                          *)
(* (ngraph/core/reference/include/ngraph/runtime/reference/gather_nd.hpp). *)
(*                                                                         *)
(* One call of gather_nd is a run of the state machine: the arguments are  *)
(* chosen in Init, Validate is the three checks of lines 120-144, Setup    *)
(* the geometry of lines 146-165, CopySlice one iteration of the inner     *)
(* loop (lines 174-190) and Return the exit of the outer loop.             *)
(*                                                                         *)
(* Shapes are 1-based sequences (the source indexes them from 0); the      *)
(* buffers params, indices and out are functions on 0..n-1, so buffer      *)
(* offsets are the source's offsets.  size_t values are kept as integers   *)
(* congruent modulo 2^64: a negative integer v stands for 2^64 + v, which  *)
(* is exact for the sums and products formed here.                         *)
(*                                                                         *)
(* Undefined behaviour (front() of an empty vector, a copy that leaves a   *)
(* buffer) is a choice between a crash and going on with an arbitrary      *)
(* value.                                                                  *)
(***************************************************************************)
EXTENDS Integers, Sequences, FiniteSets, TLC

MaxRank == 3
MaxDim == 2
MaxBatchDims == 2
MaxWidth == 3
MaxIndices == 4
MaxOutFront == 1
MaxJunkOffset == 1

VARIABLES params_shape, indices_shape, out_shape, batch_dims,
          params, indices, out,
          pc, err,
          batch_size, slice_size, indices_offsets, batch_offset,
          number_of_slices_to_copy_in_one_batch, coordinates_size,
          batch, slice,
          written, reads, copied

args == <<params_shape, indices_shape, out_shape, batch_dims, params, indices>>
locals == <<batch_size, slice_size, indices_offsets, batch_offset,
            number_of_slices_to_copy_in_one_batch, coordinates_size>>
vars == <<params_shape, indices_shape, out_shape, batch_dims, params, indices, out,
          pc, err, batch_size, slice_size, indices_offsets, batch_offset,
          number_of_slices_to_copy_in_one_batch, coordinates_size,
          batch, slice, written, reads, copied>>

(***************************************************************************)
(* Shapes                                                                  *)
(***************************************************************************)

\* shape_size: the product of the entries, 1 for an empty range.
RECURSIVE shape_size(_)
shape_size(shape) ==
    IF shape = <<>> THEN 1 ELSE Head(shape) * shape_size(Tail(shape))

\* Shape::back() and Shape::front()
back(shape) == shape[Len(shape)]
front(shape) == shape[1]

\* Span{next(begin(s), from), next(begin(s), to)}: the entries [from, to) of s,
\* counted from 0.
span(s, from, to) == SubSeq(s, from + 1, to)

\* Span::operator[]: *next(m_begin, idx), with no check against m_end.
span_at(s, from, idx) == s[from + idx + 1]

\* std::equal(begin(a), next(begin(a), n), begin(b))
equal_prefix(a, b, n) == \A i \in 1..n : a[i] = b[i]

(***************************************************************************)
(* get_indices_offsets, lines 77-92                                        *)
(***************************************************************************)

\* The while loop of lines 85-89, on a 1-based vector: the source's
\* offsets[i] after the decrement is offsets[i] here before it.
RECURSIVE offsets_loop_same_dim(_, _, _, _)
offsets_loop_same_dim(offsets, dims, i, next_e) ==
    IF i > 0
    THEN offsets_loop_same_dim([offsets EXCEPT ![i] = dims[next_e] * offsets[i + 1]],
                               dims, i - 1, next_e)
    ELSE offsets
RECURSIVE offsets_loop(_, _, _, _)
offsets_loop(offsets, dims, i, next_e) ==
    IF i > 0
    THEN offsets_loop([offsets EXCEPT ![i] = dims[next_e] * offsets[i + 1]],
                      dims, i - 1, next_e + 1)
    ELSE offsets

\* dims is the range [beg, end) and i = std::distance(beg, end), which is -1
\* when end precedes beg; the vector then has i + 1 = 0 entries.
get_indices_offsets(dims, i, last_slice_size) ==
    IF i + 1 <= 0
    THEN <<>>
    ELSE offsets_loop([j \in 1..(i + 1) |-> last_slice_size], dims, i, 1)

(***************************************************************************)
(* The geometry of one call, lines 138-165                                 *)
(***************************************************************************)

first_slice_index_in_params_of(is, bd) == bd + back(is)

slice_shape_of(ps, is, bd) ==
    span(ps, first_slice_index_in_params_of(is, bd), Len(ps))

slice_size_of_after_batch(ps, is, bd) == shape_size(span(ps, bd, Len(ps)))
slice_size_of(ps, is, bd) == shape_size(slice_shape_of(ps, is, bd))

\* [dims_begin, dims_end): params_shape read backwards, starting
\* slice_shape.size() entries from its end, indices_shape.back() - 1 entries.
dims_of(ps, is, bd) ==
    [k \in 1..(back(is) - 1) |-> ps[Len(ps) - Len(slice_shape_of(ps, is, bd)) - k + 1]]

indices_offsets_of(ps, is, bd) ==
    get_indices_offsets(dims_of(ps, is, bd), back(is) - 1, slice_size_of(ps, is, bd))

\* line 155: indices_offsets.front() * params_shape[batch_dims], for a table
\* that has a front.
batch_offset_of_back(ps, bd, offs) == IF offs = <<>> THEN 0 ELSE offs[1] * back(ps)
batch_offset_of(ps, bd, offs) == IF offs = <<>> THEN 0 ELSE offs[1] * ps[bd + 1]

number_of_slices_of(is, bd) == shape_size(span(is, bd, Len(is) - 1))

batch_size_of(ps, bd) == shape_size(span(ps, 0, bd))

(***************************************************************************)
(* One iteration of the copy loop, lines 169-189                           *)
(***************************************************************************)

\* slice_coordinates[c], read at position pos of the indices buffer.
coordinate_at(idx, pos) == IF pos \in DOMAIN idx THEN idx[pos] ELSE 0

\* line 183: i_c < 0 ? k_1_params[c] + i_c : i_c
resolve_from_front(ps, bd, c, i_c) == IF i_c < 0 THEN span_at(ps, 0, c) + i_c ELSE i_c
resolve(ps, bd, c, i_c) == IF i_c < 0 THEN span_at(ps, bd, c) + i_c ELSE i_c

coordinates_position(is, bd, b, s) ==
    b * number_of_slices_of(is, bd) * back(is) + s * back(is)

\* lines 179-185
input_slice_offset_of(ps, is, bd, idx, offs, bo, b, s) ==
    LET w == back(is)
        base == coordinates_position(is, bd, b, s)
        acc[c \in 0..w] ==
            IF c = 0
            THEN b * bo
            ELSE acc[c - 1]
                 + resolve(ps, bd, c - 1, coordinate_at(idx, base + c - 1)) * offs[c]
    IN acc[w]

\* lines 170-171 and 186
output_slice_offset_of_unscaled(n, ss, b, s) == b * n * ss + s
output_slice_offset_of_one_batch(n, ss, b, s) == s * ss
output_slice_offset_of(n, ss, b, s) == b * n * ss + s * ss

\* std::copy of lines 187-189: ss elements from src in prm to dst in o.  An
\* element read outside prm has the value j; a write outside o is lost.
copy(o, prm, src, dst, ss, j) ==
    [k \in DOMAIN o |->
        IF dst <= k /\ k < dst + ss
        THEN IF src + (k - dst) \in DOMAIN prm THEN prm[src + (k - dst)] ELSE j
        ELSE o[k]]

in_buffer(buf, first, count) ==
    \A k \in first..(first + count - 1) : k \in DOMAIN buf

(***************************************************************************)
(* Arguments                                                               *)
(*                                                                         *)
(* The calls of the model: shapes of rank at least 1 (out_shape may be     *)
(* empty when batch_dims = 0, where it is not read) with dimensions of at  *)
(* least 1, but for the coordinate width indices_shape.back(), which may   *)
(* be 0; batch_dims at most the rank of params_shape and less than the     *)
(* rank of indices_shape, whose last axis holds the tuples.  Each buffer   *)
(* has the size of its shape.  A coordinate is any of CoordinateValues, in *)
(* range or not.  params holds pairwise different values, so an element of *)
(* out tells the offset it was copied from; out starts as zeros.           *)
(***************************************************************************)

Shapes(maxrank, dims) == UNION {[1..r -> dims] : r \in 1..maxrank}

\* indices_shape: leading dimensions, then the coordinate width.
IndicesShapes ==
    {lead \o <<w>> : lead \in {<<>>} \cup Shapes(MaxRank - 1, 1..MaxDim),
                     w \in 0..MaxWidth}

CoordinateValues == (0 - MaxDim)..(MaxDim - 1)

\* The output shape of the operation: the flattened batch, the tuples of one
\* batch, one slice.
inferred_out_shape(ps, is, bd) ==
    (IF bd > 0 THEN <<batch_size_of(ps, bd)>> ELSE <<>>)
    \o span(is, bd, Len(is) - 1)
    \o (IF first_slice_index_in_params_of(is, bd) <= Len(ps)
        THEN slice_shape_of(ps, is, bd) ELSE <<>>)

OutShapes(ps, is, bd) ==
    {inferred_out_shape(ps, is, bd)} \cup {<<k>> : k \in 1..MaxOutFront}

Init ==
    /\ params_shape \in Shapes(MaxRank, 1..MaxDim)
    /\ indices_shape \in IndicesShapes
    /\ shape_size(indices_shape) <= MaxIndices
    /\ batch_dims \in 0..MaxBatchDims
    /\ batch_dims <= Len(params_shape)
    /\ batch_dims < Len(indices_shape)
    /\ out_shape \in OutShapes(params_shape, indices_shape, batch_dims)
    /\ params = [k \in 0..(shape_size(params_shape) - 1) |-> k + 1]
    /\ indices \in [0..(shape_size(indices_shape) - 1) -> CoordinateValues]
    /\ out = [k \in 0..(shape_size(out_shape) - 1) |-> 0]
    /\ pc = "validate"
    /\ err = ""
    /\ batch_size = 0
    /\ slice_size = 0
    /\ indices_offsets = <<>>
    /\ batch_offset = 0
    /\ number_of_slices_to_copy_in_one_batch = 0
    /\ coordinates_size = 0
    /\ batch = 0
    /\ slice = 0
    /\ written = <<>>
    /\ reads = {}
    /\ copied = {}

(***************************************************************************)
(* Actions                                                                 *)
(***************************************************************************)

validation_error_no_prefix(ps, is, os, bd) ==
    IF bd # 0 /\ batch_size_of(ps, bd) # front(os)
    THEN "out_shape should have on first dim multiplication of batch number"
    ELSE IF ~(first_slice_index_in_params_of(is, bd) <= Len(ps))
    THEN "params_shape should have enough rank to be index by indices"
    ELSE ""

validation_error_rank_first(ps, is, os, bd) ==
    IF ~(first_slice_index_in_params_of(is, bd) <= Len(ps))
    THEN "params_shape should have enough rank to be index by indices"
    ELSE IF bd # 0 /\ batch_size_of(ps, bd) # front(os)
    THEN "out_shape should have on first dim multiplication of batch number"
    ELSE IF ~equal_prefix(ps, is, bd)
    THEN "dimensions in params and indices have to be equal on batch dimensions"
    ELSE ""

\* lines 120-144: the three checks, in the order of the source.
validation_error(ps, is, os, bd) ==
    IF bd # 0 /\ batch_size_of(ps, bd) # front(os)
    THEN "out_shape should have on first dim multiplication of batch number"
    ELSE IF ~equal_prefix(ps, is, bd)
    THEN "dimensions in params and indices have to be equal on batch dimensions"
    ELSE IF ~(first_slice_index_in_params_of(is, bd) <= Len(ps))
    THEN "params_shape should have enough rank to be index by indices"
    ELSE ""

Validate ==
    /\ pc = "validate"
    /\ batch_size' = batch_size_of(params_shape, batch_dims)
    /\ err' = validation_error(params_shape, indices_shape, out_shape, batch_dims)
    /\ pc' = IF err' = "" THEN "setup" ELSE "error"
    /\ UNCHANGED <<args, out, slice_size, indices_offsets, batch_offset,
                   number_of_slices_to_copy_in_one_batch, coordinates_size,
                   batch, slice, written, reads, copied>>

\* lines 146-165.  indices_offsets.front() of an empty table (a coordinate
\* width of 0) is undefined: the call crashes there, or goes on with an
\* arbitrary batch_offset.
Setup ==
    /\ pc = "setup"
    /\ slice_size' = slice_size_of(params_shape, indices_shape, batch_dims)
    /\ indices_offsets' = indices_offsets_of(params_shape, indices_shape, batch_dims)
    /\ \/ /\ indices_offsets' # <<>>
          /\ batch_offset' = batch_offset_of(params_shape, batch_dims, indices_offsets')
          /\ pc' = "copy"
       \/ /\ indices_offsets' = <<>>
          /\ batch_offset' \in 0..MaxJunkOffset
          /\ pc' = "copy"
       \/ /\ indices_offsets' = <<>>
          /\ batch_offset' = batch_offset
          /\ pc' = "crashed"
    /\ number_of_slices_to_copy_in_one_batch' =
           IF pc' = "copy" THEN number_of_slices_of(indices_shape, batch_dims)
           ELSE number_of_slices_to_copy_in_one_batch
    /\ coordinates_size' = IF pc' = "copy" THEN back(indices_shape) ELSE coordinates_size
    /\ UNCHANGED <<args, out, err, batch_size, batch, slice,
                   written, reads, copied>>

\* The body of the inner loop for the pair (b, s), lines 176-189.
CopyBody(b, s) ==
    LET src == input_slice_offset_of(params_shape, indices_shape, batch_dims, indices,
                                     indices_offsets, batch_offset, b, s)
        dst == output_slice_offset_of(number_of_slices_to_copy_in_one_batch,
                                      slice_size, b, s)
        pos == coordinates_position(indices_shape, batch_dims, b, s)
        inside == /\ in_buffer(params, src, slice_size)
                  /\ in_buffer(out, dst, slice_size)
    IN /\ reads' = reads \cup {<<"indices", pos + c>> : c \in 0..(coordinates_size - 1)}
                       \cup {<<"params", src + e>> : e \in 0..(slice_size - 1)}
       /\ copied' = copied \cup {<<b, s>>}
       /\ \/ /\ inside
             /\ out' = copy(out, params, src, dst, slice_size, 0)
             /\ pc' = pc
          \/ /\ ~inside
             /\ \E j \in {0 - 1, 1} : out' = copy(out, params, src, dst, slice_size, j)
             /\ pc' = pc
          \/ /\ ~inside
             /\ out' = out
             /\ pc' = "crashed"

\* The destination offsets of the pair (b, s), in the order std::copy
\* writes them.
destinations(b, s) ==
    [e \in 1..slice_size |->
        output_slice_offset_of(number_of_slices_to_copy_in_one_batch, slice_size, b, s)
        + e - 1]

\* lines 167-190: one iteration of the inner loop, then the loop counters.
CopySlice ==
    /\ pc = "copy"
    /\ batch # batch_size
    /\ slice # number_of_slices_to_copy_in_one_batch
    /\ CopyBody(batch, slice)
    /\ written' = written \o destinations(batch, slice)
    /\ IF slice + 1 # number_of_slices_to_copy_in_one_batch
       THEN slice' = slice + 1 /\ batch' = batch
       ELSE slice' = 0 /\ batch' = batch + 1
    /\ UNCHANGED <<args, err, locals>>

\* line 167: batch == batch_size ends the call.
Return ==
    /\ pc = "copy"
    /\ batch = batch_size
    /\ pc' = "done"
    /\ UNCHANGED <<args, out, err, locals, batch, slice,
                   written, reads, copied>>

Next == Validate \/ Setup \/ CopySlice \/ Return

Spec == Init /\ [][Next]_vars

(***************************************************************************)
(* The same call with the iterations of the two loops taken in any order,  *)
(* each pair (batch, slice) once.  batch and slice hold the pair copied    *)
(* last; the order of the writes is not recorded.                          *)
(***************************************************************************)

Pairs == (0..(batch_size - 1)) \X (0..(number_of_slices_to_copy_in_one_batch - 1))

CopyAny ==
    /\ pc = "copy"
    /\ \E p \in Pairs \ copied :
          /\ CopyBody(p[1], p[2])
          /\ batch' = p[1]
          /\ slice' = p[2]
    /\ UNCHANGED <<args, err, locals, written>>

ReturnAny ==
    /\ pc = "copy"
    /\ copied = Pairs
    /\ pc' = "done"
    /\ UNCHANGED <<args, out, err, locals, batch, slice, written, reads, copied>>

NextAny == Validate \/ Setup \/ CopyAny \/ ReturnAny

SpecAnyOrder == Init /\ [][NextAny]_vars

(***************************************************************************)
(* The loops of lines 167-191 as a function of the arguments               *)
(***************************************************************************)

\* The pairs (batch, slice) from the k-th on, in the order of the loops,
\* applied to the buffer o; n slices per batch, bs batches.
RECURSIVE gather_loops(_, _, _, _, _, _, _, _, _, _, _)
gather_loops(ps, is, bd, idx, prm, o, offs, bo, n, bs, k) ==
    IF k >= bs * n
    THEN o
    ELSE LET b == k \div n
             s == k % n
             ss == slice_size_of(ps, is, bd)
             src == input_slice_offset_of(ps, is, bd, idx, offs, bo, b, s)
             dst == output_slice_offset_of(n, ss, b, s)
         IN gather_loops(ps, is, bd, idx, prm, copy(o, prm, src, dst, ss, 0),
                         offs, bo, n, bs, k + 1)

\* A whole call that passes validation, from the buffer o.
gather_nd(prm, idx, o, ps, is, bd) ==
    LET offs == indices_offsets_of(ps, is, bd)
    IN gather_loops(ps, is, bd, idx, prm, o, offs, batch_offset_of(ps, bd, offs),
                    number_of_slices_of(is, bd), batch_size_of(ps, bd), 0)

(***************************************************************************)
(* The quantities the properties are stated in, written out from the       *)
(* shapes and not taken from the locals of the call.                       *)
(***************************************************************************)

Rank == Len(params_shape)
Width == back(indices_shape)
BatchPrefixEqual == \A i \in 1..batch_dims : params_shape[i] = indices_shape[i]
RankSufficient == batch_dims + Width <= Rank
BatchProduct == shape_size(SubSeq(params_shape, 1, batch_dims))
OutFrontMatches == batch_dims > 0 => out_shape[1] = BatchProduct
InvariantsHold == BatchPrefixEqual /\ RankSufficient /\ OutFrontMatches

SlicesPerBatch == shape_size(SubSeq(indices_shape, batch_dims + 1, Len(indices_shape) - 1))
SliceElements == shape_size(SubSeq(params_shape, batch_dims + Width + 1, Rank))
Total == BatchProduct * SlicesPerBatch * SliceElements

\* The size of the params axis that tuple position p addresses.
Axis(p) == params_shape[batch_dims + p + 1]
\* product(params_shape[batch_dims + p + 1:])
Stride(p) == shape_size(SubSeq(params_shape, batch_dims + p + 2, Rank))
BatchStride == shape_size(SubSeq(params_shape, batch_dims + 1, Rank))

Resolved(c, axis) == IF c < 0 THEN c + axis ELSE c

\* Every component of every tuple resolves into its axis.
AllInRange ==
    /\ RankSufficient
    /\ \A pos \in DOMAIN indices :
          LET r == Resolved(indices[pos], Axis(pos % Width))
          IN 0 <= r /\ r < Axis(pos % Width)

ExpectedSource(b, s) ==
    LET sum[p \in 0..Width] ==
            IF p = 0 THEN 0
            ELSE sum[p - 1]
                 + Resolved(indices[(b * SlicesPerBatch + s) * Width + p - 1], Axis(p - 1))
                   * Stride(p - 1)
    IN b * BatchStride + sum[Width]

Returned == pc = "done"
PastValidation == pc # "validate"
PastSetup == pc \in {"copy", "done", "crashed"}
OutUntouched == out = [k \in DOMAIN out |-> 0]
ShapeMismatch == {"out_shape should have on first dim multiplication of batch number",
                  "dimensions in params and indices have to be equal on batch dimensions"}
InsufficientRank == "params_shape should have enough rank to be index by indices"

(***************************************************************************)
(* Properties                                                              *)
(***************************************************************************)

\* C1: a call that passes validation, with every tuple in range and out
\* shaped as the operation's output, returns with
\* out[(b * slices + s) * slice_size + e] =
\* params[b * product(params_shape[batch_dims:]) + sum_p r_p * stride_p + e]
\* for every batch b, tuple s and element e.
C1_GatherValues ==
    (Returned /\ AllInRange
       /\ out_shape = inferred_out_shape(params_shape, indices_shape, batch_dims))
    => \A b \in 0..(BatchProduct - 1), s \in 0..(SlicesPerBatch - 1),
          e \in 0..(SliceElements - 1) :
          LET d == (b * SlicesPerBatch + s) * SliceElements + e
              src == ExpectedSource(b, s) + e
          IN /\ d \in DOMAIN out
             /\ src \in DOMAIN params
             /\ out[d] = params[src]

\* C2: in a call that returns with every tuple in range, replacing one
\* component c >= 0, at any tuple position p, by c - params_shape[batch_dims + p]
\* gives the same out buffer, and a negative component c is resolved to
\* c + params_shape[batch_dims + p].
C2_NegativeIndexEquivalence ==
    (Returned /\ AllInRange)
    => \A pos \in DOMAIN indices :
          LET p == pos % Width
          IN /\ indices[pos] >= 0 =>
                   gather_nd(params, [indices EXCEPT ![pos] = indices[pos] - Axis(p)],
                             [k \in DOMAIN out |-> 0],
                             params_shape, indices_shape, batch_dims) = out
             /\ indices[pos] < 0 =>
                   resolve(params_shape, batch_dims, p, indices[pos])
                      = indices[pos] + Axis(p)

C2_Witness ==
    /\ Returned
    /\ AllInRange
    /\ batch_dims > 0
    /\ batch_dims + Width = Rank
    /\ \E pos \in DOMAIN indices : indices[pos] > 0 /\ pos % Width = Width - 1
    /\ \E pos \in DOMAIN indices : indices[pos] < 0 /\ pos % Width = Width - 1
    /\ out_shape = inferred_out_shape(params_shape, indices_shape, batch_dims)

\* The b-th of the calls with batch_dims = 0 that a call is split into: the
\* b-th blocks of params and indices, the shapes without the batch prefix.
PerBatchOut(b) ==
    LET sub_params_shape == SubSeq(params_shape, batch_dims + 1, Rank)
        sub_indices_shape == SubSeq(indices_shape, batch_dims + 1, Len(indices_shape))
        P == shape_size(sub_params_shape)
        I == shape_size(sub_indices_shape)
    IN gather_nd([k \in 0..(P - 1) |-> params[b * P + k]],
                 [k \in 0..(I - 1) |-> indices[b * I + k]],
                 [k \in 0..(SlicesPerBatch * SliceElements - 1) |-> 0],
                 sub_params_shape, sub_indices_shape, 0)

Concatenated ==
    LET per == SlicesPerBatch * SliceElements
    IN [k \in 0..(BatchProduct * per - 1) |-> PerBatchOut(k \div per)[k % per]]

\* C3: a call with batch_dims > 0 that passes validation, with every tuple in
\* range and out shaped as the operation's output, returns with out equal to
\* the outputs of the per-batch calls, concatenated in batch order.
C3_BatchIndependence ==
    (Returned /\ batch_dims > 0 /\ AllInRange
       /\ out_shape = inferred_out_shape(params_shape, indices_shape, batch_dims))
    => out = Concatenated

\* C4: a call that breaks one of the three validated invariants ends in an
\* error with out as it was and nothing written; with a batch prefix that
\* differs the error is a ShapeMismatch.
C4_FailFast ==
    (PastValidation /\ ~InvariantsHold)
    => /\ pc = "error"
       /\ err # ""
       /\ OutUntouched
       /\ written = <<>>
       /\ (~BatchPrefixEqual => err \in ShapeMismatch)

C4_Witness ==
    /\ pc = "error"
    /\ ~BatchPrefixEqual
    /\ RankSufficient
    /\ err \in ShapeMismatch
    /\ OutUntouched

\* C5 as stated: ShapeMismatch when the batch prefixes differ or the leading
\* dimension of out_shape is wrong, InsufficientRank whenever
\* batch_dims + indices_shape.back() exceeds the rank, no error otherwise.
C5_Classification ==
    PastValidation
    => /\ (~BatchPrefixEqual \/ ~OutFrontMatches) => err \in ShapeMismatch
       /\ ~RankSufficient => err = InsufficientRank
       /\ InvariantsHold => err = ""

\* C5 amended: the rank is checked last, so InsufficientRank is the error
\* only of a call whose batch prefixes agree and whose out_shape leads with
\* the batch product; the two kinds are told apart by their message.
C5_ClassificationInOrder ==
    PastValidation
    => /\ (~BatchPrefixEqual \/ ~OutFrontMatches) => err \in ShapeMismatch
       /\ (~RankSufficient /\ BatchPrefixEqual /\ OutFrontMatches)
             => err = InsufficientRank
       /\ InvariantsHold => (err = "" /\ pc # "error")
       /\ err # "" => pc = "error"
       /\ InsufficientRank \notin ShapeMismatch

C5_Witness ==
    /\ pc = "error"
    /\ ~RankSufficient
    /\ ~BatchPrefixEqual
    /\ err \in ShapeMismatch

\* C6 as stated: every call that passes validation has
\* shape_size(out_shape) = batch_size * slices per batch * slice_size.
C6_SizeLaw ==
    (PastValidation /\ pc # "error") => shape_size(out_shape) = Total

\* C6 amended: the law holds of a call that passes validation when out_shape
\* is the shape of the operation's output; the loop bounds of such a call
\* multiply to shape_size(out_shape), and a call that returns has written
\* that many elements.
C6_SizeLawInferred ==
    (PastValidation /\ pc # "error"
       /\ out_shape = inferred_out_shape(params_shape, indices_shape, batch_dims))
    => /\ shape_size(out_shape) = Total
       /\ pc \in {"copy", "done"} =>
             batch_size * number_of_slices_to_copy_in_one_batch * slice_size
                = shape_size(out_shape)
       /\ Returned => Len(written) = shape_size(out_shape)

C6_Witness ==
    /\ Returned
    /\ out_shape = inferred_out_shape(params_shape, indices_shape, batch_dims)
    /\ batch_dims > 0
    /\ Width > 0
    /\ Len(written) = 4

\* C7: a call that returns has written the destination offsets
\* 0, 1, ..., N-1 in that order, N = batch_size * slices per batch *
\* slice_size, and has read only params and indices.
C7_WriteSequence ==
    Returned
    => /\ written = [k \in 1..Total |-> k - 1]
       /\ \A r \in reads : r[1] \in {"params", "indices"}

C7_Witness ==
    /\ Returned
    /\ batch_size > 1
    /\ slice_size > 1
    /\ Width > 0
    /\ Len(written) = batch_size * number_of_slices_to_copy_in_one_batch * slice_size

\* C9 as stated: the table has indices_shape.back() + 1 entries, the last
\* is slice_size, entry i is the axis at i times entry i + 1, and the
\* builder is given all the addressed axes, reversed.
C9_TableShape ==
    PastSetup
    => /\ Len(indices_offsets) = Width + 1
       /\ indices_offsets[Width + 1] = slice_size
       /\ \A i \in 1..Width : indices_offsets[i] = Axis(i - 1) * indices_offsets[i + 1]
       /\ dims_of(params_shape, indices_shape, batch_dims)
             = [k \in 1..Width |-> Axis(Width - k)]

\* C9 amended: the table has indices_shape.back() entries; for a width of at
\* least 1 the last is slice_size and entry i is the size of the addressed
\* axis at i + 1 times entry i + 1, which is the row-major stride of axis
\* i; the builder is given the addressed axes but the first, reversed.
C9_TableShapeAsBuilt ==
    PastSetup
    => /\ Len(indices_offsets) = Width
       /\ Width >= 1 => (indices_offsets[Width] = slice_size /\ slice_size = SliceElements)
       /\ \A i \in 1..(Width - 1) : indices_offsets[i] = Axis(i) * indices_offsets[i + 1]
       /\ \A i \in 1..Width : indices_offsets[i] = Stride(i - 1)
       /\ dims_of(params_shape, indices_shape, batch_dims)
             = [k \in 1..(Width - 1) |-> Axis(Width - k)]

C9_Witness ==
    /\ pc = "copy"
    /\ Width = 3
    /\ Len(indices_offsets) = 3
    /\ indices_offsets[1] > indices_offsets[2]
    /\ indices_offsets[2] = indices_offsets[3]

\* C10: in a call that passes validation with a coordinate width of at
\* least 1 and every tuple in range, every element read from params lies in
\* [0, shape_size(params_shape)) and every position read from indices in
\* [0, shape_size(indices_shape)).
C10_ReadsInBounds ==
    (PastSetup /\ Width >= 1 /\ AllInRange)
    => \A r \in reads :
          /\ r[1] = "params" => r[2] \in 0..(shape_size(params_shape) - 1)
          /\ r[1] = "indices" => r[2] \in 0..(shape_size(indices_shape) - 1)

C10_Witness ==
    /\ Returned
    /\ Width >= 1
    /\ AllInRange
    /\ batch_dims > 0
    /\ \E pos \in DOMAIN indices : indices[pos] < 0
    /\ <<"params", shape_size(params_shape) - 1>> \in reads
    /\ <<"indices", shape_size(indices_shape) - 1>> \in reads

\* C8: when the pairs (batch, slice) are copied in any order, the
\* destination ranges of distinct pairs are disjoint, and a call that
\* returns, having read params only inside the buffer, leaves the out buffer
\* that the loops in their sequential order leave.
C8_OrderIndependence ==
    /\ pc \in {"copy", "done"} =>
          \A p \in Pairs, q \in Pairs :
             LET dp == output_slice_offset_of(number_of_slices_to_copy_in_one_batch,
                                              slice_size, p[1], p[2])
                 dq == output_slice_offset_of(number_of_slices_to_copy_in_one_batch,
                                              slice_size, q[1], q[2])
             IN p # q => (dp + slice_size <= dq \/ dq + slice_size <= dp)
    /\ (Returned /\ \A r \in reads : r[1] = "params" => r[2] \in DOMAIN params)
       => out = gather_loops(params_shape, indices_shape, batch_dims, indices, params,
                             [k \in DOMAIN out |-> 0], indices_offsets, batch_offset,
                             number_of_slices_to_copy_in_one_batch, batch_size, 0)

C8_Witness ==
    /\ Returned
    /\ batch_size > 1
    /\ number_of_slices_to_copy_in_one_batch > 1
    /\ batch = 0
    /\ slice = 0
    /\ Width > 0
    /\ \A r \in reads : r[1] = "params" => r[2] \in DOMAIN params

(***************************************************************************)
(* What remains of C1 and C3 when the coordinate width is at least 1, so   *)
(* that the offset table has a front.                                      *)
(***************************************************************************)

GatherValuesWidthPositive == Width >= 1 => C1_GatherValues

BatchIndependenceWidthPositive == Width >= 1 => C3_BatchIndependence

====
